---------------------------- MODULE Spec2Model ----------------------------
(***************************************************************************)
(* A model of PyPan's mesh-topology inference (pypan/mesh.py) and of its   *)
(* wake subsystem (pypan/wake.py).                                         *)
(*                                                                         *)
(* Mesh part.  A panel is a ring of 3 or 4 vertex indices into the vertex  *)
(* pool.  The pool is deduplicated, so two panel vertices coincide         *)
(* (distance < 1e-10) exactly when they are the same pool entry; a vertex  *)
(* position is therefore represented by its pool index.  Panel indices and *)
(* vertex indices are 0-based as in the source; positions inside a ring    *)
(* are 1-based (TLA+ sequences), which leaves differences of positions     *)
(* (ii - ii0) as in the source.                                            *)
(*                                                                         *)
(* Wake part.  Positions are integer vectors in units of 1e-3, unit        *)
(* vectors are integer vectors of length 10 (one decimal), the segment     *)
(* length l is in units of 1e-2, so that l*u and 0.01*u are exact position *)
(* offsets; velocities are integer vectors in position units per second.   *)
(* Floating-point rounding is replaced by fixed-point rounding.  The       *)
(* Biot-Savart kernels are opaque: an arbitrary table, fixed per run, read *)
(* at a digest of the element's geometry and of the field point.           *)
(***************************************************************************)
EXTENDS Integers, Sequences, FiniteSets, TLC

\* ------------------------------------------------------------------ bounds
NumPanels == 3
NumVerts == 6

\* ------------------------------------------------------- program constants
TriN == 3
QuadN == 4

VARIABLES
    pc,                     \* position of the driving script
    panel_vertex_indices,   \* Mesh._panel_vertex_indices (without the leading count)
    n,                      \* Mesh.n: the panel normals
    kutta_angle,            \* kwargs "kutta_angle": <<>> is None, <<d>> is d degrees
    adjacent_panels,        \* Panel.adjacent_panels, per panel
    across,                 \* Panel.adjacent_panels_across_kutta_edge, per panel
    not_across,             \* Panel.adjacent_panels_not_across_kutta_edge, per panel
    kutta_edges,            \* Mesh.kutta_edges
    N_edges,                \* Mesh.N_edges
    wake_class,             \* "NonIterativeWake" or "IterativeWake"
    wake_type,              \* NonIterativeWake._type
    wake_kwargs,            \* kwargs dir, normal_dir (<<>> is absent, <<v>> is v)
                            \* and end_segment_infinite
    wake_kutta_edges,       \* Wake._kutta_edges
    filaments,              \* the wake's filaments, in the order of np.unique
    N_segments,             \* IterativeWake.N_segments
    corrector_iterations,   \* IterativeWake._corrector_iterations
    kernel,                 \* the opaque Biot-Savart kernel table
    field_points,           \* the points of the last get_influence_matrix call
    influence,              \* the matrix the last get_influence_matrix call returned
    updates,                \* update() calls made since the direction was set
    last_update,            \* the arguments of the last update() call, <<>> if none
    vtk,                    \* what the last get_vtk_data call returned, <<>> if none
    last_direction          \* the last NonIterativeWake.set_filament_direction call,
                            \* <<>> if none

meshVars == <<panel_vertex_indices, n, kutta_angle, adjacent_panels, across,
              not_across, kutta_edges, N_edges>>

wakeVars == <<wake_class, wake_type, wake_kwargs, wake_kutta_edges, filaments, N_segments,
              corrector_iterations, kernel, field_points, influence, updates,
              last_update, vtk, last_direction>>

vars == <<pc, meshVars, wakeVars>>

\* ----------------------------------------------------------------- helpers
Range(s) == {s[k] : k \in 1..Len(s)}

InSeq(x, s) == \E k \in 1..Len(s) : s[k] = x

Injective(s) == \A a, b \in 1..Len(s) : s[a] = s[b] => a = b

PanelIds == 0..(NumPanels - 1)

EmptyLists == [i \in PanelIds |-> <<>>]

\* ------------------------------------------------------------ mesh inputs
\* Every ordering of every window of 3 or of 4 consecutive pool indices.
RingsOver(S) == {s \in [1..Cardinality(S) -> S] : Injective(s)}

TriWindows == {a..(a + TriN - 1) : a \in 0..(NumVerts - TriN)}

QuadWindows == {a..(a + QuadN - 1) : a \in 0..(NumVerts - QuadN)}

Rings == UNION {RingsOver(S) : S \in TriWindows \cup QuadWindows}

\* Panel 0 is named first: its vertices take the first pool indices.
FirstRings == {<<0, 1, 2>>, <<0, 1, 2, 3>>}

\* Unit normals: "up" and "side"; coplanar panels share a normal.  Only the
\* angles between normals are read, so panel 0's normal fixes the frame.
UpNormal == <<0, 0, 1>>

Normals == {UpNormal, <<1, 0, 0>>}

KuttaAngles == {<<>>, <<0>>, <<30>>}

\* ------------------------------------------------------- adjacency mapping
\* mesh.py 432: panel i's vertex index at position a is one of panel j's.
SharesAtSamePosition(i, j, a) ==
    /\ a <= Len(panel_vertex_indices[j])
    /\ panel_vertex_indices[i][a] = panel_vertex_indices[j][a]

SharesAt(i, j, a) ==
    panel_vertex_indices[i][a] \in Range(panel_vertex_indices[j])

\* mesh.py 433-434: each panel is appended to the other's list.
AdjAppendOneWay(adj, i, j) == [adj EXCEPT ![i] = Append(@, j)]

AdjAppend(adj, i, j) == [adj EXCEPT ![i] = Append(@, j), ![j] = Append(@, i)]

\* mesh.py 430-435: the loop over panel i's vertex indices, from position a on.
RECURSIVE AdjInner(_, _, _, _)
AdjInner(adj, i, j, a) ==
    IF a > Len(panel_vertex_indices[i]) THEN adj
    ELSE IF SharesAt(i, j, a) /\ ~InSeq(j, adj[i])
         THEN AdjAppend(adj, i, j)      \* break
         ELSE AdjInner(adj, i, j, a + 1)

\* mesh.py 424-435: the loops over i and over j in range(i+1, N).
RECURSIVE AdjLoop(_, _, _)
AdjLoop(adj, i, j) ==
    IF i >= NumPanels THEN adj
    ELSE IF j >= NumPanels THEN AdjLoop(adj, i + 1, i + 2)
    ELSE AdjLoop(AdjInner(adj, i, j, 1), i, j + 1)

determine_panel_adjacency_mapping(adj) == AdjLoop(adj, 0, 1)

\* ------------------------------------------------------------ Kutta edges
Dot(u, v) == u[1] * v[1] + u[2] * v[2] + u[3] * v[3]

\* arccos, in degrees, of the inner product of two of the unit normals above.
ArccosDeg(d) == CASE d = 1 -> 0 [] d = 0 -> 90 [] d = -1 -> 180

\* mesh.py 294: theta = |arccos(n_i . n_j)|.
theta(i, j) == ArccosDeg(Dot(n[i], n[j]))

\* mesh.py 282-285: a Kutta angle was passed.
KuttaAngleTruthy == kutta_angle # <<>> /\ kutta_angle # <<0>>

KuttaAngleGiven == kutta_angle # <<>>

\* mesh.py 286: the threshold (np.radians is monotone: degrees are compared).
theta_K == kutta_angle[1]

\* mesh.py 297: angle_greater = theta > theta_K.
AngleGreaterOrEqual(i, j) == theta(i, j) >= theta_K

angle_greater(i, j) == theta(i, j) > theta_K

\* mesh.py 298: the panels with some angle above the threshold.
i_panels == {i \in PanelIds : \E j \in PanelIds : angle_greater(i, j)}

\* geometry.KuttaEdge(v0, v1, panel_indices).
KuttaEdge(v0, v1, p) == [vertices |-> <<v0, v1>>, panel_indices |-> p]

\* mesh.py 325-326: two panel vertices coincide.
Coincide(vi, vj) == vi = vj

\* mesh.py 335-338: the edge in the order of panel i's ring.
NewEdgeNeverSwapped(i, j, ii0, ii) ==
    KuttaEdge(panel_vertex_indices[i][ii0], panel_vertex_indices[i][ii], <<i, j>>)

NewEdge(i, j, ii0, ii) ==
    IF ii - ii0 = 1
    THEN KuttaEdge(panel_vertex_indices[i][ii0], panel_vertex_indices[i][ii], <<i, j>>)
    ELSE KuttaEdge(panel_vertex_indices[i][ii], panel_vertex_indices[i][ii0], <<i, j>>)

\* mesh.py 322-339: the loop over panel j's vertices for vertex ii of panel i.
\* st.ii0 = 0 stands for "v0 is None".
RECURSIVE EdgeInner(_, _, _, _, _)
EdgeInner(st, i, j, ii, jj) ==
    IF jj > Len(panel_vertex_indices[j]) THEN st
    ELSE IF Coincide(panel_vertex_indices[i][ii], panel_vertex_indices[j][jj])
         THEN IF st.ii0 = 0
              THEN EdgeInner([st EXCEPT !.ii0 = ii], i, j, ii, jj + 1)
              ELSE [st EXCEPT !.edges = Append(@, NewEdge(i, j, st.ii0, ii))]  \* break
         ELSE EdgeInner(st, i, j, ii, jj + 1)

\* mesh.py 321: the loop over panel i's vertices.
RECURSIVE EdgeOuter(_, _, _, _)
EdgeOuter(st, i, j, ii) ==
    IF ii > Len(panel_vertex_indices[i]) THEN st
    ELSE EdgeOuter(EdgeInner(st, i, j, ii, 1), i, j, ii + 1)

\* mesh.py 316-339: the edges of the pair (i, j), appended to edges.
PairEdges(edges, i, j) == EdgeOuter([edges |-> edges, ii0 |-> 0], i, j, 1).edges

\* mesh.py 309-339: the loop over panel i's neighbours, from position k on.
RECURSIVE NeighbourLoop(_, _, _, _)
NeighbourLoop(edges, adj, i, k) ==
    IF k > Len(adj[i]) THEN edges
    ELSE LET j == adj[i][k] IN
         IF j <= i THEN NeighbourLoop(edges, adj, i, k + 1)
         ELSE IF angle_greater(i, j)
              THEN NeighbourLoop(PairEdges(edges, i, j), adj, i, k + 1)
              ELSE NeighbourLoop(edges, adj, i, k + 1)

\* mesh.py 304-339: the loop over i_panels, in increasing order.
RECURSIVE PanelLoop(_, _, _)
PanelLoop(edges, adj, i) ==
    IF i >= NumPanels THEN edges
    ELSE IF i \in i_panels
         THEN PanelLoop(NeighbourLoop(edges, adj, i, 1), adj, i + 1)
         ELSE PanelLoop(edges, adj, i + 1)

\* mesh.py 350-353: neighbour j of panel i goes to one of the two lists.
ClassifyBoth(lists, i, j) ==
    [ac |-> [lists.ac EXCEPT ![i] = Append(@, j)],
     na |-> [lists.na EXCEPT ![i] = Append(@, j)]]

Classify(lists, i, j) ==
    IF angle_greater(i, j)
    THEN [lists EXCEPT !.ac[i] = Append(@, j)]
    ELSE [lists EXCEPT !.na[i] = Append(@, j)]

\* mesh.py 348-353: the loops over the panels and over each one's neighbours.
RECURSIVE ClassifyLoop(_, _, _, _)
ClassifyLoop(lists, adj, i, k) ==
    IF i >= NumPanels THEN lists
    ELSE IF k > Len(adj[i]) THEN ClassifyLoop(lists, adj, i + 1, 1)
    ELSE ClassifyLoop(Classify(lists, i, adj[i][k]), adj, i, k + 1)

\* No wake object exists.
NoWake ==
    /\ wake_class = "Wake"
    /\ wake_type = "freestream"
    /\ wake_kwargs = [dir |-> <<>>, normal_dir |-> <<>>, end_segment_infinite |-> FALSE]
    /\ wake_kutta_edges = <<>>
    /\ filaments = <<>>
    /\ N_segments = 1
    /\ corrector_iterations = 0
    /\ kernel = <<>>
    /\ field_points = <<>>
    /\ influence = <<>>
    /\ updates = 0
    /\ last_update = <<>>
    /\ vtk = <<>>
    /\ last_direction = <<>>

\* ----------------------------------------------------------------- actions
\* Mesh.__init__ (mesh.py 58-88): the mesh is loaded, then the adjacency mapping
\* is determined and the Kutta edges are found.
MeshConstruct ==
    /\ pc = "loaded"
    /\ pc' = "constructed"
    /\ LET adj == determine_panel_adjacency_mapping(adjacent_panels) IN
       /\ adjacent_panels' = adj
       /\ IF KuttaAngleGiven
          THEN LET edges == PanelLoop(<<>>, adj, 0)
                   lists == ClassifyLoop([ac |-> across, na |-> not_across], adj, 0, 1)
               IN /\ kutta_edges' = edges
                  /\ N_edges' = Len(edges)
                  /\ across' = lists.ac
                  /\ not_across' = lists.na
          ELSE /\ N_edges' = 0
               /\ UNCHANGED <<kutta_edges, across, not_across>>
    /\ UNCHANGED <<panel_vertex_indices, n, kutta_angle>>
    /\ UNCHANGED wakeVars

\* The mesh as loaded from the mesh file, before the topology is inferred.
InitMesh ==
    /\ pc = "loaded"
    /\ \E r0 \in FirstRings, rest \in [PanelIds \ {0} -> Rings] :
         panel_vertex_indices = [i \in PanelIds |-> IF i = 0 THEN r0 ELSE rest[i]]
    /\ \E rest \in [PanelIds \ {0} -> Normals] :
         n = [i \in PanelIds |-> IF i = 0 THEN UpNormal ELSE rest[i]]
    /\ kutta_angle \in KuttaAngles
    /\ adjacent_panels = EmptyLists
    /\ across = EmptyLists
    /\ not_across = EmptyLists
    /\ kutta_edges = <<>>
    /\ N_edges = 0
    /\ NoWake

NextMesh == MeshConstruct

SpecMesh == InitMesh /\ [][NextMesh]_vars

\* ------------------------------------------------------ the mesh's claims
Constructed == pc = "constructed"

Count(x, s) == Cardinality({k \in 1..Len(s) : s[k] = x})

SharedVertices(i, j) ==
    Range(panel_vertex_indices[i]) \cap Range(panel_vertex_indices[j])

Adjacent(i, j) == InSeq(j, adjacent_panels[i])

EdgesOfPair(i, j) ==
    {k \in 1..Len(kutta_edges) : kutta_edges[k].panel_indices = <<i, j>>}

\* C1: after Mesh construction panel adjacency is symmetric: j is in panel i's
\* adjacent_panels if and only if i is in panel j's.
C1_AdjacencySymmetric ==
    Constructed =>
        \A i, j \in PanelIds :
            InSeq(j, adjacent_panels[i]) <=> InSeq(i, adjacent_panels[j])

C1_Witness ==
    /\ Constructed
    /\ \E i, j, k \in PanelIds :
         /\ i # j /\ i # k /\ j # k
         /\ Adjacent(i, j) /\ Adjacent(j, i)
         /\ ~Adjacent(i, k) /\ ~Adjacent(k, i)

\* C2: for i # j, j appears in panel i's adjacent_panels exactly once when the
\* two vertex-index lists share an index and not at all otherwise; no panel is
\* its own neighbour.
C2_AdjacencyExact ==
    Constructed =>
        \A i, j \in PanelIds :
            Count(j, adjacent_panels[i]) =
                IF i # j /\ SharedVertices(i, j) # {} THEN 1 ELSE 0

C2_Witness ==
    /\ Constructed
    /\ \E i, j, k \in PanelIds :
         /\ i # j /\ i # k /\ j # k
         /\ Cardinality(SharedVertices(i, j)) >= 2
         /\ Count(j, adjacent_panels[i]) = 1
         /\ SharedVertices(i, k) = {}
         /\ Count(k, adjacent_panels[i]) = 0

\* C3: with a Kutta angle supplied, each adjacent pair (i, j), i < j, whose
\* normal angle exceeds the threshold and that shares exactly two vertices gets
\* exactly one Kutta edge, holding those two vertices and the pair [i, j];
\* adjacent pairs whose angle does not exceed the threshold, and adjacent pairs
\* sharing only one vertex, get no edge.
C3_OneEdgePerSharpPair ==
    (Constructed /\ kutta_angle # <<>>) =>
        \A i, j \in PanelIds :
            (i < j /\ Adjacent(i, j)) =>
                LET sharp == theta(i, j) > kutta_angle[1]
                    shared == SharedVertices(i, j)
                IN /\ (sharp /\ Cardinality(shared) = 2) =>
                        /\ Cardinality(EdgesOfPair(i, j)) = 1
                        /\ \A k \in EdgesOfPair(i, j) :
                               Range(kutta_edges[k].vertices) = shared
                   /\ (~sharp \/ Cardinality(shared) = 1) =>
                        /\ EdgesOfPair(i, j) = {}
                        /\ EdgesOfPair(j, i) = {}

C3_Witness ==
    /\ Constructed
    /\ kutta_angle = <<30>>
    /\ \E i, j, k \in PanelIds :
         /\ i < j /\ Adjacent(i, j)
         /\ theta(i, j) = 90
         /\ Cardinality(SharedVertices(i, j)) = 2
         /\ Cardinality(EdgesOfPair(i, j)) = 1
         /\ k # i /\ k # j /\ Adjacent(j, k)
         /\ theta(j, k) = 90
         /\ Cardinality(SharedVertices(j, k)) = 1
         /\ EdgesOfPair(j, k) = {} /\ EdgesOfPair(k, j) = {}

\* Position of vertex v in ring r.
PositionIn(v, r) == CHOOSE a \in 1..Len(r) : r[a] = v

\* C4: every Kutta edge (v0, v1, [i, j]) is stored in panel i's winding:
\* whenever the two vertices are neighbours in panel i's ring, v1 immediately
\* follows v0 in the forward cyclic traversal, the wrap-around included.
C4_EdgeFollowsWinding ==
    Constructed =>
        \A k \in 1..Len(kutta_edges) :
            LET r == panel_vertex_indices[kutta_edges[k].panel_indices[1]]
                a == PositionIn(kutta_edges[k].vertices[1], r)
                b == PositionIn(kutta_edges[k].vertices[2], r)
            IN /\ kutta_edges[k].vertices[1] \in Range(r)
               /\ kutta_edges[k].vertices[2] \in Range(r)
               /\ (b = (a % Len(r)) + 1 \/ a = (b % Len(r)) + 1) =>
                      b = (a % Len(r)) + 1

C4_Witness ==
    /\ Constructed
    /\ \E k, m \in 1..Len(kutta_edges) :
         LET r == panel_vertex_indices[kutta_edges[k].panel_indices[1]]
             q == panel_vertex_indices[kutta_edges[m].panel_indices[1]]
         IN /\ Len(r) = QuadN
            /\ kutta_edges[k].vertices = <<r[4], r[1]>>
            /\ Len(q) = TriN
            /\ kutta_edges[m].vertices = <<q[3], q[1]>>

C6_NeighboursPartitioned ==
    (Constructed /\ kutta_angle # <<>>) =>
        \A i \in PanelIds :
            /\ Range(across[i]) \cap Range(not_across[i]) = {}
            /\ Range(across[i]) \cup Range(not_across[i]) = Range(adjacent_panels[i])
            /\ Len(across[i]) + Len(not_across[i]) = Len(adjacent_panels[i])

C6_Witness ==
    /\ Constructed
    /\ kutta_angle # <<>>
    /\ \E i \in PanelIds : across[i] # <<>> /\ not_across[i] # <<>>

\* =================================================================== wake
\* -------------------------------------------------------------- more bounds
MaxEdges == 2

\* ---------------------------------------------------------------- vectors
Zero3 == <<0, 0, 0>>

\* The non-finite vector (0/0 in every component); arithmetic propagates it.
NaN3 == <<"nan">>

IsNaN(u) == Len(u) = 1

VAdd(u, v) ==
    IF IsNaN(u) \/ IsNaN(v) THEN NaN3 ELSE <<u[1] + v[1], u[2] + v[2], u[3] + v[3]>>

VSub(u, v) ==
    IF IsNaN(u) \/ IsNaN(v) THEN NaN3 ELSE <<u[1] - v[1], u[2] - v[2], u[3] - v[3]>>

VNeg(u) == IF IsNaN(u) THEN NaN3 ELSE <<-u[1], -u[2], -u[3]>>

VScale(k, u) == IF IsNaN(u) THEN NaN3 ELSE <<k * u[1], k * u[2], k * u[3]>>

\* pp_math.cross / vec_cross.
Cross(u, v) == <<u[2] * v[3] - u[3] * v[2],
                 u[3] * v[1] - u[1] * v[3],
                 u[1] * v[2] - u[2] * v[1]>>

\* Lexicographic order of rows, the order of np.unique(axis=0).
LexLess(u, v) ==
    \/ u[1] < v[1]
    \/ u[1] = v[1] /\ u[2] < v[2]
    \/ u[1] = v[1] /\ u[2] = v[2] /\ u[3] < v[3]

RECURSIVE SortLex(_)
SortLex(S) ==
    IF S = {} THEN <<>>
    ELSE LET m == CHOOSE x \in S : \A y \in S : x = y \/ LexLess(x, y)
         IN <<m>> \o SortLex(S \ {m})

\* ------------------------------------------------------------ wake inputs
\* The panels of the mesh the wake belongs to (N_panels of them).
WakePanelIds == 0..(NumPanels + 1)

\* Kutta vertices on a trailing edge.
WakeVertices == {<<0, 0, 0>>, <<0, 1000, 0>>, <<0, 2000, 0>>}

\* Panel pairs [i, j], i < j: two that share panel 0, two that are disjoint.
PanelPairs == {<<0, 1>>, <<0, 2>>, <<2, 3>>}

WakeEdges ==
    {e \in [vertices : WakeVertices \X WakeVertices, panel_indices : PanelPairs] :
        e.vertices[1] # e.vertices[2]}

\* A mesh yields no two edges with the same end vertices and the same panels.
WakeEdgeLists ==
    {es \in UNION {[1..k -> WakeEdges] : k \in 0..MaxEdges} :
        \A a, b \in 1..Len(es) :
            (/\ Range(es[a].vertices) = Range(es[b].vertices)
             /\ es[a].panel_indices = es[b].panel_indices) => a = b}

\* The opaque kernel: a table of velocities per unit strength.
KernelTables == {<<Zero3, Zero3>>,
                 <<<<0, 200, 0>>, <<0, 0, 400>>>>,
                 <<<<600, 0, 0>>, <<0, 200, 0>>, <<0, 0, -200>>>>}

FieldPointLists == {<<<<500, 500, 1000>>>>, <<<<500, 500, 1000>>, <<-700, 1500, 300>>>>}

FreestreamVelocities == {<<0, 0, -5000>>, <<-3000, 0, -4000>>}

AngularRates == {Zero3, <<0, 0, 1>>}

\* ------------------------------------------------- _arrange_kutta_vertices
\* wake.py 33-38: row 2i is edge i's first vertex, row 2i+1 its second
\* (rows are numbered from 1 here: odd rows are first vertices).
VertexRow(edges, j) == edges[(j + 1) \div 2].vertices[IF j % 2 = 1 THEN 1 ELSE 2]

\* wake.py 41: the unique vertices, sorted.
UniqueVertices(edges) == SortLex({VertexRow(edges, j) : j \in 1..(2 * Len(edges))})

\* wake.py 53-56: the row's edge gives the vertex its inbound or outbound pair.
AssignPanels(acc, edges, j) ==
    IF j % 2 = 1
    THEN [acc EXCEPT !.ip = edges[(j + 1) \div 2].panel_indices]
    ELSE [acc EXCEPT !.op = edges[(j + 1) \div 2].panel_indices]

\* wake.py 51-56: the loop over the rows for one unique vertex.
RECURSIVE PanelsOfVertex(_, _, _, _)
PanelsOfVertex(acc, edges, v, j) ==
    IF j > 2 * Len(edges) THEN acc
    ELSE IF VertexRow(edges, j) = v
         THEN PanelsOfVertex(AssignPanels(acc, edges, j), edges, v, j + 1)
         ELSE PanelsOfVertex(acc, edges, v, j + 1)

\* wake.py 27-62: one [vertex, ip, op] per unique vertex.
arrange_kutta_vertices(edges) ==
    LET uv == UniqueVertices(edges) IN
    [i \in 1..Len(uv) |->
        LET acc == PanelsOfVertex([ip |-> <<>>, op |-> <<>>], edges, uv[i], 1)
        IN [vertex |-> uv[i], ip |-> acc.ip, op |-> acc.op]]

\* A filament: NonIterativeWake's (_vertices[i], inbound_panels[i],
\* outbound_panels[i], filament_dirs[i]) or IterativeWake's
\* SegmentedVortexFilament (p0, inbound_panels, outbound_panels, dir, points).
Filament(p0, ip, op, dir, points) ==
    [p0 |-> p0, inbound_panels |-> ip, outbound_panels |-> op,
     dir |-> dir, points |-> points,
     end_inf |-> wake_kwargs.end_segment_infinite]

\* ------------------------------------------------------ fixed-point maths
RECURSIVE IsqrtBetween(_, _, _)
IsqrtBetween(lo, hi, x) ==
    IF lo >= hi THEN lo
    ELSE LET mid == (lo + hi + 1) \div 2 IN
         IF mid * mid <= x THEN IsqrtBetween(mid, hi, x)
         ELSE IsqrtBetween(lo, mid - 1, x)

\* pp_math.norm / vec_norm, rounded down to the position unit.
norm(v) == IsqrtBetween(0, 46340, Dot(v, v))

RoundDiv(a, b) ==
    IF a >= 0 THEN (2 * a + b) \div (2 * b) ELSE -((b - 2 * a) \div (2 * b))

\* v / norm(v): the unit vector, of length 10.
Unit(v) == LET m == norm(v) IN
    <<RoundDiv(10 * v[1], m), RoundDiv(10 * v[2], m), RoundDiv(10 * v[3], m)>>

\* ----------------------------------------------------- set_filament_direction
\* IterativeWake.segment_length (default 1.0), in units of 1e-2.
SegmentLength == 100

\* filaments.SegmentedVortexFilament.initialize_points(u): the filament is laid
\* out straight from its origin along u.
InitializePoints(f, u) ==
    [f EXCEPT !.dir = u,
              !.points = [k \in 1..Len(f.points) |->
                             VAdd(f.p0, VScale((k - 1) * SegmentLength, u))]]

\* wake.py 149: "constrained" in self._type.
Constrained(type) ==
    type \in {"freestream_constrained", "freestream_and_rotation_constrained"}

\* wake.py 152-153: the unit normal of the constraint plane.
ConstraintNormal == Unit(wake_kwargs.normal_dir[1])

\* wake.py 157, 179 and 191: P v with P = I - n n^T (n.n is 100 in these units).
Project(v) ==
    LET nrm == ConstraintNormal
        d == Dot(nrm, v)
    IN <<v[1] - RoundDiv(nrm[1] * d, 100), v[2] - RoundDiv(nrm[2] * d, 100),
         v[3] - RoundDiv(nrm[3] * d, 100)>>

\* wake.py 140-146: type "custom" needs the keyword dir.
DirMissing == wake_type = "custom" /\ wake_kwargs.dir = <<>>

\* wake.py 149-154: a constrained type needs the keyword normal_dir.
NormalDirNeverRequired == FALSE

NormalDirMissing == Constrained(wake_type) /\ wake_kwargs.normal_dir = <<>>

\* wake.py 123-157 and 315-330: the constructors' filaments.
NewFilaments(edges, nseg) ==
    LET arr == arrange_kutta_vertices(edges) IN
    [i \in 1..Len(arr) |->
        Filament(arr[i].vertex, arr[i].ip, arr[i].op,
                 IF wake_class = "NonIterativeWake" /\ wake_type = "custom"
                 THEN Unit(wake_kwargs.dir[1])
                 ELSE Zero3,
                 IF wake_class = "IterativeWake"
                 THEN [k \in 1..(nseg + 1) |-> arr[i].vertex]
                 ELSE <<>>)]

\* A direction rule that turns the direction the filament already has towards
\* the new one, instead of replacing it.
DirectFilamentAccumulating(f, v_inf, omega) ==
    IF wake_class = "IterativeWake"
    THEN InitializePoints(f, Unit(VSub(v_inf, Cross(omega, f.p0))))
    ELSE [f EXCEPT !.dir = Unit(VAdd(VScale(1000, f.dir),
                                     VSub(v_inf, Cross(omega, f.p0))))]

\* wake.py 160-192 and 333-349, for one filament.
DirectFilament(f, v_inf, omega) ==
    IF wake_class = "IterativeWake"
    THEN InitializePoints(f, Unit(VSub(v_inf, Cross(omega, f.p0))))
    ELSE CASE wake_type = "freestream" ->
                [f EXCEPT !.dir = Unit(v_inf)]
           [] wake_type = "freestream_constrained" ->
                [f EXCEPT !.dir = Unit(Project(v_inf))]
           [] wake_type = "freestream_and_rotation" ->
                [f EXCEPT !.dir = Unit(VSub(v_inf, Cross(omega, f.p0)))]
           [] wake_type = "freestream_and_rotation_constrained" ->
                [f EXCEPT !.dir = Unit(Project(VSub(v_inf, Cross(omega, f.p0))))]
           [] OTHER -> f

set_filament_direction(fils, v_inf, omega) ==
    [i \in 1..Len(fils) |-> DirectFilament(fils[i], v_inf, omega)]

\* ------------------------------------------------------------ the kernels
Digest(v) == (v[1] \div 100) + 3 * (v[2] \div 100) + 7 * (v[3] \div 100)

RECURSIVE DigestAll(_, _)
DigestAll(points, k) ==
    IF k > Len(points) THEN 0 ELSE k * Digest(points[k]) + DigestAll(points, k + 1)

Kernel(key, x) == kernel[((key + Digest(x)) % Len(kernel)) + 1]

\* geometry.KuttaEdge.get_vortex_influence, at one point.
EdgeInfluenceAt(e, x) ==
    Kernel(Digest(e.vertices[1]) + 2 * Digest(e.vertices[2]), x)

\* wake.py 239-243: r_mag*(r_mag - dir.r) is zero, for r = x - p0: x is the
\* origin or lies on the ray from the origin along dir.
OnRay(f, x) ==
    LET r == <<x[1] - f.p0[1], x[2] - f.p0[2], x[3] - f.p0[3]>> IN
    \/ r = Zero3
    \/ Cross(f.dir, r) = Zero3 /\ Dot(f.dir, r) > 0

\* wake.py 239-243: the semi-infinite filament from p0 along dir, at one point;
\* on the ray the quotient is 0/0.
SemiInfiniteInfluenceAt(f, x) ==
    IF OnRay(f, x) THEN NaN3 ELSE Kernel(Digest(f.p0) + 5 * Digest(f.dir), x)

\* filaments.SegmentedVortexFilament.get_influence, at one point.
SegmentedInfluenceAt(f, x) == Kernel(DigestAll(f.points, 1), x)

FilamentInfluenceAt(f, x) ==
    IF wake_class = "IterativeWake"
    THEN SegmentedInfluenceAt(f, x)
    ELSE SemiInfiniteInfluenceAt(f, x)

\* -------------------------------------------------------- get_influence_matrix
\* wake.py 223 / 422: np.zeros((N, N_panels, 3)).
ZeroMatrix(pts) == [p \in 1..Len(pts) |-> [k \in WakePanelIds |-> Zero3]]

\* wake.py 235-236 / 434-435: the edge's influence is stored for its two panels.
EdgeStore(row, e, V) ==
    LET r1 == [row EXCEPT ![e.panel_indices[1]] = VNeg(V)]
    IN [r1 EXCEPT ![e.panel_indices[2]] = V]

\* wake.py 226-236 / 425-435: the loop over the edges.
RECURSIVE EdgeLoop(_, _, _)
EdgeLoop(M, pts, k) ==
    IF k > Len(wake_kutta_edges) THEN M
    ELSE EdgeLoop([p \in 1..Len(pts) |->
                      EdgeStore(M[p], wake_kutta_edges[k],
                                EdgeInfluenceAt(wake_kutta_edges[k], pts[p]))],
                  pts, k + 1)

\* wake.py 247-250 / 444-447: the outbound pair.
RowOutboundSameSign(row, op, V) ==
    IF Len(op) > 0
    THEN LET r1 == [row EXCEPT ![op[1]] = VAdd(@, V)]
         IN [r1 EXCEPT ![op[2]] = VAdd(@, V)]
    ELSE row

RowOutbound(row, op, V) ==
    IF Len(op) > 0
    THEN LET r1 == [row EXCEPT ![op[1]] = VSub(@, V)]
         IN [r1 EXCEPT ![op[2]] = VAdd(@, V)]
    ELSE row

\* wake.py 253-256 / 450-453: the inbound pair.
RowInbound(row, ip, V) ==
    IF Len(ip) > 0
    THEN LET r1 == [row EXCEPT ![ip[1]] = VAdd(@, V)]
         IN [r1 EXCEPT ![ip[2]] = VSub(@, V)]
    ELSE row

\* wake.py 244-256 / 438-453: the loop over the filaments.
RECURSIVE FilamentLoop(_, _, _)
FilamentLoop(M, pts, i) ==
    IF i > Len(filaments) THEN M
    ELSE FilamentLoop(
           [p \in 1..Len(pts) |->
               LET V == FilamentInfluenceAt(filaments[i], pts[p])
               IN RowInbound(RowOutbound(M[p], filaments[i].outbound_panels, V),
                             filaments[i].inbound_panels, V)],
           pts, i + 1)

get_influence_matrix(pts) == FilamentLoop(EdgeLoop(ZeroMatrix(pts), pts, 1), pts, 1)

\* ------------------------------------------------------------ wake actions
\* No mesh object is part of a wake run.
NoMesh ==
    /\ panel_vertex_indices = <<>>
    /\ n = <<>>
    /\ kutta_angle = <<>>
    /\ adjacent_panels = <<>>
    /\ across = <<>>
    /\ not_across = <<>>
    /\ kutta_edges = <<>>
    /\ N_edges = 0

\* NonIterativeWake.__init__ / IterativeWake.__init__.  With no Kutta edge,
\* _arrange_kutta_vertices returns names it never bound and raises; a
\* NonIterativeWake whose type lacks its keyword raises IOError.
WakeConstruct ==
    /\ pc = "wake_new"
    /\ IF wake_class = "Wake"
       THEN /\ pc' = "wake_constructed"
            /\ filaments' = <<>>
       ELSE IF Len(wake_kutta_edges) = 0
       THEN /\ pc' = "raised"
            /\ UNCHANGED filaments
       ELSE IF wake_class = "NonIterativeWake" /\ (DirMissing \/ NormalDirMissing)
       THEN /\ pc' = "raised_IOError"
            /\ UNCHANGED filaments
       ELSE /\ pc' = "wake_constructed"
            /\ filaments' = NewFilaments(wake_kutta_edges, N_segments)
    /\ UNCHANGED <<wake_class, wake_type, wake_kwargs, wake_kutta_edges, N_segments,
                   corrector_iterations, kernel, field_points, influence, updates,
                   last_update, vtk,
                   last_direction>>
    /\ UNCHANGED meshVars

\* How the call before this one was made: not at all, with the same arguments
\* or with other ones.
PreviousCall(v_inf, omega) ==
    IF last_direction = <<>> THEN "none"
    ELSE IF last_direction.v_inf = v_inf /\ last_direction.omega = omega THEN "same"
    ELSE "other"

\* wake.py 173-192: v_inf and omega are operands of expressions that build new
\* arrays (u /= norm(u) divides the new array u): the caller's arrays after the
\* call.
DirectionArgumentsAfter(v_inf, omega) == [v_inf |-> v_inf, omega |-> omega]

\* set_filament_direction(v_inf, omega).  last_direction keeps the arguments of
\* a NonIterativeWake's call.
SetFilamentDirection ==
    /\ pc \in {"wake_constructed", "directed", "computed", "relaxed"}
    /\ \E v_inf \in FreestreamVelocities, omega \in AngularRates :
          /\ filaments' = set_filament_direction(filaments, v_inf, omega)
          /\ last_direction' =
                IF wake_class = "NonIterativeWake"
                THEN [v_inf |-> v_inf, omega |-> omega,
                      previous |-> PreviousCall(v_inf, omega),
                      after |-> DirectionArgumentsAfter(v_inf, omega)]
                ELSE <<>>
    /\ pc' = "directed"
    /\ field_points' = <<>>        \* no matrix has been returned by this call
    /\ influence' = <<>>
    /\ updates' = 0                \* no update() has followed this call
    /\ last_update' = <<>>
    /\ vtk' = <<>>                 \* nor has get_vtk_data
    /\ UNCHANGED <<wake_class, wake_type, wake_kwargs, wake_kutta_edges, N_segments,
                   corrector_iterations, kernel>>
    /\ UNCHANGED meshVars

\* get_influence_matrix(points=..., N_panels=...).
GetInfluenceMatrix ==
    /\ pc \in {"directed", "computed"}
    /\ \E pts \in FieldPointLists :
          /\ field_points' = pts
          /\ influence' = get_influence_matrix(pts)
    /\ pc' = "computed"
    /\ UNCHANGED <<wake_class, wake_type, wake_kwargs, wake_kutta_edges, filaments, N_segments,
                   corrector_iterations, kernel, updates, last_update, vtk,
                   last_direction>>
    /\ UNCHANGED meshVars

MaxSegments == 2

\* wake.py 111-121: the types of a NonIterativeWake.
WakeTypes == {"freestream", "freestream_constrained", "freestream_and_rotation",
              "freestream_and_rotation_constrained", "custom"}

\* The keywords a caller passes with a type: dir with "custom", normal_dir with
\* a constrained type, each possibly forgotten.
KwargsOf(type) ==
    {[dir |-> d, normal_dir |-> nd, end_segment_infinite |-> FALSE] :
        d \in IF type = "custom" THEN {<<>>, <<<<0, 0, -2000>>>>} ELSE {<<>>},
        nd \in IF Constrained(type) THEN {<<>>, <<<<3000, 0, 0>>>>} ELSE {<<>>}}

InitWake ==
    /\ pc = "wake_new"
    /\ NoMesh
    /\ wake_kutta_edges \in WakeEdgeLists
    /\ \/ /\ wake_class = "NonIterativeWake"
          /\ wake_type \in WakeTypes
          /\ wake_kwargs \in KwargsOf(wake_type)
          /\ N_segments = 1
       \/ /\ wake_class = "IterativeWake"
          /\ wake_type = "freestream"
          /\ wake_kwargs = [dir |-> <<>>, normal_dir |-> <<>>, end_segment_infinite |-> FALSE]
          /\ N_segments \in 1..MaxSegments
    /\ corrector_iterations = 0
    /\ kernel \in KernelTables
    /\ filaments = <<>>
    /\ field_points = <<>>
    /\ influence = <<>>
    /\ updates = 0
    /\ last_update = <<>>
    /\ vtk = <<>>
    /\ last_direction = <<>>

NextWake == WakeConstruct \/ SetFilamentDirection \/ GetInfluenceMatrix

SpecWake == InitWake /\ [][NextWake]_vars

\* ------------------------------------------------- the influence matrix's claims
Computed == pc = "computed"

\* The sign with which a unit of the element's influence belongs to panel k.
EdgeSign(e, k) ==
    IF k = e.panel_indices[1] THEN -1 ELSE IF k = e.panel_indices[2] THEN 1 ELSE 0

PairSign(pair, k) ==
    IF Len(pair) = 0 THEN 0
    ELSE IF k = pair[1] THEN 1 ELSE IF k = pair[2] THEN -1 ELSE 0

FilamentSign(f, k) == PairSign(f.inbound_panels, k) - PairSign(f.outbound_panels, k)

RECURSIVE SumOfEdges(_, _, _)
SumOfEdges(k, x, m) ==
    IF m > Len(wake_kutta_edges) THEN Zero3
    ELSE VAdd(VScale(EdgeSign(wake_kutta_edges[m], k),
                     EdgeInfluenceAt(wake_kutta_edges[m], x)),
              SumOfEdges(k, x, m + 1))

RECURSIVE SumOfFilaments(_, _, _)
SumOfFilaments(k, x, m) ==
    IF m > Len(filaments) THEN Zero3
    ELSE VAdd(VScale(FilamentSign(filaments[m], k),
                     FilamentInfluenceAt(filaments[m], x)),
              SumOfFilaments(k, x, m + 1))

BracketedPanels == UNION {Range(wake_kutta_edges[m].panel_indices) :
                             m \in 1..Len(wake_kutta_edges)}

\* C7: get_influence_matrix returns a (points x N_panels x 3) array whose entry
\* for point p and panel k is the sum of the signed segment contributions of
\* every Kutta edge bracketed by k plus the signed contributions of every
\* filament that brackets k, also when k brackets several edges; the column of
\* a panel that brackets no edge is zero.
C7_MatrixIsSumOfElements ==
    Computed =>
        /\ DOMAIN influence = 1..Len(field_points)
        /\ \A p \in 1..Len(field_points) :
              /\ DOMAIN influence[p] = WakePanelIds
              /\ \A k \in WakePanelIds :
                    /\ influence[p][k] =
                          VAdd(SumOfEdges(k, field_points[p], 1),
                               SumOfFilaments(k, field_points[p], 1))
                    /\ k \notin BracketedPanels => influence[p][k] = Zero3

\* An edge whose panels bracket no edge with another panel pair.
PairStandsAlone(e) ==
    \A m \in 1..Len(wake_kutta_edges) :
        \/ wake_kutta_edges[m].panel_indices = e.panel_indices
        \/ Range(wake_kutta_edges[m].panel_indices) \cap Range(e.panel_indices) = {}

ZeroRow == [k \in WakePanelIds |-> Zero3]

\* C8: what one Kutta edge, or one filament, with bracketing pair [i, j] adds to
\* panel i's entry is the negative of what it adds to panel j's entry, at every
\* field point: the two sum to the zero vector.
C8_ContributionsAntisymmetric ==
    Computed =>
        \A p \in 1..Len(field_points) :
            /\ \A m \in 1..Len(wake_kutta_edges) :
                  LET e == wake_kutta_edges[m]
                      row == EdgeStore(ZeroRow, e, EdgeInfluenceAt(e, field_points[p]))
                  IN /\ VAdd(row[e.panel_indices[1]], row[e.panel_indices[2]]) = Zero3
                     /\ PairStandsAlone(e) =>
                           VAdd(influence[p][e.panel_indices[1]],
                                influence[p][e.panel_indices[2]]) = Zero3
            /\ \A m \in 1..Len(filaments) :
                  LET f == filaments[m]
                      V == FilamentInfluenceAt(f, field_points[p])
                      out == RowOutbound(ZeroRow, f.outbound_panels, V)
                      inb == RowInbound(ZeroRow, f.inbound_panels, V)
                  IN /\ Len(f.outbound_panels) > 0 =>
                           VAdd(out[f.outbound_panels[1]], out[f.outbound_panels[2]]) = Zero3
                     /\ Len(f.inbound_panels) > 0 =>
                           VAdd(inb[f.inbound_panels[1]], inb[f.inbound_panels[2]]) = Zero3

C8_Witness ==
    /\ Computed
    /\ Len(wake_kutta_edges) = 2
    /\ wake_kutta_edges[1].panel_indices = <<0, 1>>
    /\ wake_kutta_edges[2].panel_indices = <<2, 3>>
    /\ wake_kutta_edges[1].vertices[2] = wake_kutta_edges[2].vertices[1]
    /\ \E p \in 1..Len(field_points) :
          /\ influence[p][0] # Zero3
          /\ influence[p][2] # Zero3
          /\ VAdd(influence[p][0], influence[p][1]) = Zero3
          /\ \E m \in 1..Len(filaments) :
                FilamentInfluenceAt(filaments[m], field_points[p]) # Zero3

\* ------------------------------------------------------ IterativeWake.update
MaxUpdates == 2
MaxCorrectors == 2

\* The body-velocity callables a solver may hand to update().
BodyVelocityFns == {"none", "shear"}

velocity_from_body(fn, x) ==
    CASE fn = "none" -> Zero3
      [] fn = "shear" -> <<x[3], 0, 0>>

\* The doublet strengths a solver may hand to update().
MuVectors == {[k \in WakePanelIds |-> 0], [k \in WakePanelIds |-> k % 3]}

\* wake.py 543-552: filament f's term of the velocity at a point of another
\* filament.
FilamentTerm(f, x, mu) ==
    LET v == SegmentedInfluenceAt(f, x)
        op == f.outbound_panels
        ip == f.inbound_panels
        a == IF Len(op) > 0
             THEN VAdd(VNeg(VScale(mu[op[1]], v)), VScale(mu[op[2]], v))
             ELSE Zero3
        b == IF Len(ip) > 0
             THEN VAdd(VScale(mu[ip[1]], v), VNeg(VScale(mu[ip[2]], v)))
             ELSE Zero3
    IN VAdd(a, b)

\* The loop over the filaments without the selection ind: filament i's own
\* term is added to the velocity at its own point.
RECURSIVE OtherFilamentsIncludingOwn(_, _, _, _)
OtherFilamentsIncludingOwn(points, mu, i, j) ==
    IF j > Len(filaments) THEN Zero3
    ELSE VAdd(FilamentTerm(filaments[j], points[i], mu),
              OtherFilamentsIncludingOwn(points, mu, i, j + 1))

\* wake.py 536-552: the loop over the filaments, for the point of filament i;
\* ind leaves filament i's own point out.
RECURSIVE OtherFilaments(_, _, _, _)
OtherFilaments(points, mu, i, j) ==
    IF j > Len(filaments) THEN Zero3
    ELSE VAdd(IF j # i THEN FilamentTerm(filaments[j], points[i], mu) ELSE Zero3,
              OtherFilaments(points, mu, i, j + 1))

\* wake.py 555-565: the loop over the Kutta edges, for one point.
RECURSIVE EdgeTerms(_, _, _)
EdgeTerms(x, mu, k) ==
    IF k > Len(wake_kutta_edges) THEN Zero3
    ELSE LET e == wake_kutta_edges[k]
             v == EdgeInfluenceAt(e, x)
         IN VAdd(VAdd(VNeg(VScale(mu[e.panel_indices[1]], v)),
                      VScale(mu[e.panel_indices[2]], v)),
                 EdgeTerms(x, mu, k + 1))

\* An (N, 3) ndarray: its rows are computed when the expression is evaluated.
Array(rows) == <<>> \o rows

\* The velocity routine reading filaments whose first trailing point has
\* already been moved to the point under evaluation.
RECURSIVE OtherMovedFilaments(_, _, _, _, _)
OtherMovedFilaments(fils, points, mu, i, j) ==
    IF j > Len(fils) THEN Zero3
    ELSE VAdd(IF j # i THEN FilamentTerm(fils[j], points[i], mu) ELSE Zero3,
              OtherMovedFilaments(fils, points, mu, i, j + 1))

VelocitySeeingMovedPoints(points, mu) ==
    LET fils == Array([m \in 1..Len(filaments) |->
                    [filaments[m] EXCEPT !.points[2] = points[m]]])
    IN Array([i \in 1..Len(points) |->
           VAdd(OtherMovedFilaments(fils, points, mu, i, 1),
                EdgeTerms(points[i], mu, 1))])

\* wake.py 527-566: the velocity induced at each filament's point.
get_velocity_from_other_filaments_and_edges(points, mu) ==
    Array([i \in 1..Len(points) |->
        VAdd(OtherFilaments(points, mu, i, 1), EdgeTerms(points[i], mu, 1))])

\* wake.py 486-488: the starting locations.
StartAtOrigin(f) == f.p0

StartLocation(f) == VAdd(f.p0, f.dir)

\* wake.py 497-498: the velocity at the step-start points; ind is what
\* _get_velocity_from_other_filaments_and_edges returned for them.
StartVelocity(curr_loc, ind, body, v_inf, omega) ==
    Array([i \in 1..Len(curr_loc) |->
        VAdd(VSub(VAdd(velocity_from_body(body, curr_loc[i]), v_inf),
                  Cross(omega, curr_loc[i])),
             ind[i])])

\* wake.py 507-508: the velocity at the predicted points.
CorrectorVelocity(next_loc, ind, body, v_inf) ==
    Array([i \in 1..Len(next_loc) |->
        VAdd(VAdd(velocity_from_body(body, next_loc[i]), v_inf), ind[i])])

\* wake.py 501 and 512: curr_loc + l*v/|v|.
Advance(curr_loc, v) ==
    Array([i \in 1..Len(curr_loc) |->
        VAdd(curr_loc[i], VScale(SegmentLength, Unit(v[i])))])

\* wake.py 511: 0.5*(v0+v1).
Half(v) == <<RoundDiv(v[1], 2), RoundDiv(v[2], 2), RoundDiv(v[3], 2)>>

\* wake.py 506-512: one corrector pass; the record keeps what the pass
\* evaluated: the points it evaluated at, the induced and total velocity there,
\* the point it advanced from, the average and the corrected points.
CorrectorPass(curr_loc, v0, next_loc, body, mu, v_inf) ==
    LET ind == get_velocity_from_other_filaments_and_edges(next_loc, mu)
        v1 == CorrectorVelocity(next_loc, ind, body, v_inf)
        v_avg == Array([i \in 1..Len(curr_loc) |-> Half(VAdd(v0[i], v1[i]))])
    IN [at |-> next_loc, v_ind |-> ind, v1 |-> v1, from |-> curr_loc, v0 |-> v0,
        v_avg |-> v_avg, next_loc |-> Advance(curr_loc, v_avg)]

\* Corrector passes that advance from the point the previous pass predicted.
RECURSIVE CorrectFromPredicted(_, _, _, _, _, _, _)
CorrectFromPredicted(curr_loc, v0, next_loc, j, body, mu, v_inf) ==
    IF j >= corrector_iterations THEN <<>>
    ELSE LET pass == CorrectorPass(next_loc, v0, next_loc, body, mu, v_inf)
         IN <<pass>> \o CorrectFromPredicted(curr_loc, v0, pass.next_loc, j + 1,
                                             body, mu, v_inf)

\* Corrector passes that stop as soon as a pass no longer moves the points.
RECURSIVE CorrectUntilConverged(_, _, _, _, _, _, _)
CorrectUntilConverged(curr_loc, v0, next_loc, j, body, mu, v_inf) ==
    IF j >= corrector_iterations THEN <<>>
    ELSE LET pass == CorrectorPass(curr_loc, v0, next_loc, body, mu, v_inf)
         IN IF pass.next_loc = next_loc THEN <<pass>>
            ELSE <<pass>> \o CorrectUntilConverged(curr_loc, v0, pass.next_loc, j + 1,
                                                   body, mu, v_inf)

\* wake.py 504-512: the corrector passes of one station, in order.
RECURSIVE Correct(_, _, _, _, _, _, _)
Correct(curr_loc, v0, next_loc, j, body, mu, v_inf) ==
    IF j >= corrector_iterations THEN <<>>
    ELSE LET pass == CorrectorPass(curr_loc, v0, next_loc, body, mu, v_inf)
         IN <<pass>> \o Correct(curr_loc, v0, pass.next_loc, j + 1, body, mu, v_inf)

\* wake.py 496-518: one station: the step-start evaluation, the predictor, the
\* corrector passes and the point that is stored.
Station(curr_loc, body, mu, v_inf, omega) ==
    LET ind == get_velocity_from_other_filaments_and_edges(curr_loc, mu)
        v0 == StartVelocity(curr_loc, ind, body, v_inf, omega)
        predicted == Advance(curr_loc, v0)
        passes == Correct(curr_loc, v0, predicted, 0, body, mu, v_inf)
    IN [curr_loc |-> curr_loc, v_ind |-> ind, v0 |-> v0, predicted |-> predicted,
        passes |-> passes,
        next_loc |-> IF passes = <<>> THEN predicted
                     ELSE passes[Len(passes)].next_loc]

\* wake.py 494-518: the loop over the stations, in downstream order.
RECURSIVE Stations(_, _, _, _, _, _, _)
Stations(curr_loc, log, i, body, mu, v_inf, omega) ==
    IF i > N_segments THEN log
    ELSE LET s == Station(curr_loc, body, mu, v_inf, omega)
         IN Stations(s.next_loc, Append(log, s), i + 1, body, mu, v_inf, omega)

\* wake.py 515: new_locs[:,i-1,:] = next_loc; new_locs[i][m] is station i of
\* filament m.
NewLocs(log) == [i \in 1..Len(log) |-> log[i].next_loc]

\* The store that replaces the whole point array by the new locations.
StorePointsResized(f, m, new_locs) ==
    [f EXCEPT !.points = [k \in 1..N_segments |-> new_locs[k][m]]]

\* wake.py 523-524: filament.points[1:] = new_locs[i], for filament m.
StorePointsFromFirst(f, m, new_locs) ==
    [f EXCEPT !.points = [k \in 1..Len(f.points) |->
                             IF k <= N_segments THEN new_locs[k][m] ELSE f.points[k]]]

StorePoints(f, m, new_locs) ==
    [f EXCEPT !.points = [k \in 1..Len(f.points) |->
                             IF k = 1 THEN f.points[1] ELSE new_locs[k - 1][m]]]

\* wake.py 486-488: curr_loc before the first station.
StartLocations == Array([m \in 1..Len(filaments) |-> StartLocation(filaments[m])])

\* wake.py 483-518: the stations one call goes through.
UpdateLog(body, mu, v_inf, omega) ==
    Stations(StartLocations, <<>>, 1, body, mu, v_inf, omega)

\* wake.py 497-498 and 507-508: mu, v_inf and omega are operands of
\* expressions that build new arrays and are the target of no assignment: the
\* caller's arrays after the call.
ArgumentsAfter(mu, v_inf, omega) == [mu |-> mu, v_inf |-> v_inf, omega |-> omega]

\* wake.py 458-524.
update(log) ==
    [m \in 1..Len(filaments) |-> StorePoints(filaments[m], m, NewLocs(log))]

\* update(velocity_from_body, mu, v_inf, omega, verbose), called by the solver
\* once the filament directions are set.  last_update keeps the call's
\* arguments, the filaments it started from, the stations it went through, the
\* matrix get_influence_matrix gives for the starting locations and the
\* caller's arrays as the call leaves them.
Update ==
    /\ pc \in {"directed", "relaxed"}
    /\ wake_class = "IterativeWake"
    /\ updates < MaxUpdates
    /\ \E body \in BodyVelocityFns, mu \in MuVectors,
          v_inf \in FreestreamVelocities, omega \in AngularRates :
          LET log == UpdateLog(body, mu, v_inf, omega) IN
          /\ filaments' = update(log)
          /\ last_update' =
                [body |-> body, mu |-> mu, v_inf |-> v_inf, omega |-> omega,
                 before |-> filaments,
                 log |-> log,
                 v_ind |-> log[1].v_ind,
                 matrix |-> get_influence_matrix(StartLocations),
                 after |-> ArgumentsAfter(mu, v_inf, omega)]
    /\ updates' = updates + 1
    /\ pc' = "relaxed"
    /\ UNCHANGED <<wake_class, wake_type, wake_kwargs, wake_kutta_edges, N_segments,
                   corrector_iterations, kernel, field_points, influence, vtk,
                   last_direction>>
    /\ UNCHANGED meshVars

\* The Kutta edges of a trailing edge of two spans, wound one way.
RelaxEdges ==
    {KuttaEdge(<<0, 0, 0>>, <<0, 1000, 0>>, <<0, 1>>),
     KuttaEdge(<<0, 1000, 0>>, <<0, 2000, 0>>, <<2, 3>>),
     KuttaEdge(<<0, 1000, 0>>, <<0, 2000, 0>>, <<0, 2>>)}

RelaxEdgeLists == {l \in WakeEdgeLists : Range(l) \subseteq RelaxEdges}

\* The kernel table of the relaxation runs: no velocity of it vanishes.
RelaxKernel == <<<<600, 0, 0>>, <<0, 200, 0>>, <<0, 0, -200>>>>

InitRelax ==
    /\ pc = "wake_new"
    /\ NoMesh
    /\ wake_kutta_edges \in RelaxEdgeLists
    /\ wake_class = "IterativeWake"
    /\ wake_type = "freestream"
    /\ wake_kwargs = [dir |-> <<>>, normal_dir |-> <<>>, end_segment_infinite |-> FALSE]
    /\ N_segments \in 1..MaxSegments
    /\ corrector_iterations \in {0, MaxCorrectors}
    /\ kernel = RelaxKernel
    /\ filaments = <<>>
    /\ field_points = <<>>
    /\ influence = <<>>
    /\ updates = 0
    /\ last_update = <<>>
    /\ vtk = <<>>
    /\ last_direction = <<>>

NextRelax == WakeConstruct \/ SetFilamentDirection \/ Update

SpecRelax == InitRelax /\ [][NextRelax]_vars

\* ------------------------------------------------------ the relaxation's claims
\* C9: after set_filament_direction and any number of update() calls, point 0 of
\* every filament, and its origin p0, is the Kutta vertex the filament was
\* constructed with.
C9_PointZeroAnchored ==
    pc \in {"directed", "relaxed"} =>
        LET arr == arrange_kutta_vertices(wake_kutta_edges) IN
        /\ Len(filaments) = Len(arr)
        /\ \A m \in 1..Len(filaments) :
              /\ filaments[m].p0 = arr[m].vertex
              /\ filaments[m].points[1] = arr[m].vertex
              /\ \E k \in 1..Len(wake_kutta_edges) :
                    arr[m].vertex \in Range(wake_kutta_edges[k].vertices)

\* Two updates have moved a trailing point off the straight line the direction
\* call laid out, and point 0 is where it was.
C9_Witness ==
    /\ pc = "relaxed"
    /\ updates = 2
    /\ Len(filaments) >= 2
    /\ \E m \in 1..Len(filaments) :
          /\ filaments[m].points[2] #
                VAdd(filaments[m].p0, VScale(SegmentLength, filaments[m].dir))
          /\ filaments[m].points[1] = filaments[m].p0

\* Scenario C: one segment, no corrector pass, freestream (0,0,-V), no rotation,
\* no body-induced velocity, no velocity induced by filaments and edges, one
\* update() after the direction was set under the same flow.
Down == <<0, 0, -10>>

ScenarioC ==
    /\ pc = "relaxed"
    /\ updates = 1
    /\ N_segments = 1
    /\ corrector_iterations = 0
    /\ last_update.v_inf[1] = 0 /\ last_update.v_inf[2] = 0 /\ last_update.v_inf[3] < 0
    /\ last_update.omega = Zero3
    /\ last_update.body = "none"
    /\ \A m \in 1..Len(filaments) : last_update.v_ind[m] = Zero3

\* C10 as stated: in Scenario C the trailing point of each filament is its
\* origin + l*(0,0,-1) exactly.
C10_TrailingPointOneSegmentFromOrigin ==
    (ScenarioC /\ \A m \in 1..Len(filaments) : filaments[m].dir = Down) =>
        \A m \in 1..Len(filaments) :
            filaments[m].points[2] = VAdd(filaments[m].p0, VScale(SegmentLength, Down))

\* C10, amended: in Scenario C the trailing point of each filament is one
\* segment length straight down from the start location of the march, which is
\* the origin offset by 0.01 along the filament's direction.
C10_TrailingPointOneSegmentFromOffset ==
    ScenarioC =>
        \A m \in 1..Len(filaments) :
            filaments[m].points[2] =
                VAdd(VAdd(filaments[m].p0, filaments[m].dir),
                     VScale(SegmentLength, Down))

C10_Witness ==
    /\ ScenarioC
    /\ Len(filaments) >= 2
    /\ \A m \in 1..Len(filaments) :
          /\ filaments[m].dir = Down
          /\ filaments[m].points[2] = VAdd(filaments[m].p0, <<0, 0, -1010>>)

\* ------------------------------------------------------ the constructor's claims
KeywordMissing ==
    /\ wake_class = "NonIterativeWake"
    /\ \/ wake_type = "custom" /\ wake_kwargs.dir = <<>>
       \/ Constrained(wake_type) /\ wake_kwargs.normal_dir = <<>>

\* C11: a NonIterativeWake of type "custom" without dir, or of a constrained
\* type without normal_dir, raises inside the constructor: the run never gets
\* past construction, no filament exists and no matrix is ever returned.
C11_MissingKeywordRaisesInConstructor ==
    KeywordMissing =>
        /\ pc \in {"wake_new", "raised", "raised_IOError"}
        /\ filaments = <<>>
        /\ influence = <<>>

\* The constructor has raised IOError for a constrained wake over two edges.
C11_Witness ==
    /\ KeywordMissing
    /\ pc = "raised_IOError"
    /\ wake_type = "freestream_and_rotation_constrained"
    /\ Len(wake_kutta_edges) = 2

\* ------------------------------------------------ the Kutta edges' error claim
\* A discontinuous adjacent pair i < j that does not resolve to exactly two
\* coincident vertices.
DegeneratePair(i, j) ==
    /\ i < j
    /\ KuttaAngleGiven
    /\ Adjacent(i, j)
    /\ angle_greater(i, j)
    /\ Cardinality(SharedVertices(i, j)) # 2

\* C12: a discontinuous adjacent pair with one, or with three or more,
\* coincident vertices is surfaced as an error (the construction does not
\* complete), and no edge is placed in the Kutta-edge list for that pair.
C12_DegeneratePairIsAnError ==
    \A i, j \in PanelIds :
        DegeneratePair(i, j) => /\ ~Constructed
                                /\ EdgesOfPair(i, j) = {}

\* ---------------------------------------------- field points on a filament
\* Field points a caller may hand over by mistake: a Kutta vertex, and a point
\* straight below one.
SingularPointLists ==
    {<<<<0, 1000, 0>>>>, <<<<500, 500, 1000>>, <<0, 0, -1000>>>>}

\* get_influence_matrix(points=..., N_panels=...) with such points.
GetInfluenceMatrixOnRay ==
    /\ pc \in {"directed", "computed"}
    /\ \E pts \in SingularPointLists :
          /\ field_points' = pts
          /\ influence' = get_influence_matrix(pts)
    /\ pc' = "computed"
    /\ UNCHANGED <<wake_class, wake_type, wake_kwargs, wake_kutta_edges, filaments,
                   N_segments, corrector_iterations, kernel, updates, last_update, vtk,
                   last_direction>>
    /\ UNCHANGED meshVars

InitSingular ==
    /\ pc = "wake_new"
    /\ NoMesh
    /\ wake_kutta_edges \in RelaxEdgeLists
    /\ wake_class = "NonIterativeWake"
    /\ wake_type \in WakeTypes
    /\ wake_kwargs \in KwargsOf(wake_type)
    /\ N_segments = 1
    /\ corrector_iterations = 0
    /\ kernel \in KernelTables
    /\ filaments = <<>>
    /\ field_points = <<>>
    /\ influence = <<>>
    /\ updates = 0
    /\ last_update = <<>>
    /\ vtk = <<>>
    /\ last_direction = <<>>

NextSingular == WakeConstruct \/ SetFilamentDirection \/ GetInfluenceMatrixOnRay

SpecSingular == InitSingular /\ [][NextSingular]_vars

\* Some field point of the last call is on the ray of a filament.
PointOnRay ==
    \E p \in 1..Len(field_points), m \in 1..Len(filaments) :
        OnRay(filaments[m], field_points[p])

\* C13: with a field point on a filament's ray the evaluation is reported as an
\* error (the call does not return a matrix), and no returned matrix holds a
\* non-finite entry.
C13_SingularPointIsGuarded ==
    Computed =>
        /\ ~PointOnRay
        /\ \A p \in 1..Len(field_points), k \in WakePanelIds : ~IsNaN(influence[p][k])

\* ------------------------------------------------------------- get_vtk_data
\* kwargs "length" (default 5.0), in units of 1e-2.
VtkLengths == {500}

\* SegmentedVortexFilament.N: the number of segments of a filament.
FilamentN(f) == Len(f.points) - 1

\* wake.py 279-289: two vertices and one line per filament; line entries hold
\* the 0-based indices of the source.
RECURSIVE FixedVtk(_, _, _, _, _)
FixedVtk(vertices, lines, i, j, l) ==
    IF j > Len(filaments) THEN [vertices |-> vertices, lines |-> lines]
    ELSE LET f == filaments[j] IN
         FixedVtk(vertices \o <<f.p0, VAdd(f.p0, VScale(l, f.dir))>>,
                  Append(lines, <<2, i, i + 1>>),
                  i + 2, j + 1, l)

\* The line list without the test that skips the last point of a filament.
FilamentLinesUnguarded(f, i) == [j \in 1..Len(f.points) |-> <<2, i + j - 1, i + j>>]

\* wake.py 372-377: the points of one filament and the lines that join them.
FilamentLines(f, i) == [j \in 1..(Len(f.points) - 1) |-> <<2, i + j - 1, i + j>>]

\* wake.py 380-384: an infinite end segment is drawn with length l.
EndTreated(vertices, f, l) ==
    IF f.end_inf
    THEN LET k == Len(vertices)
             u == Unit(VSub(vertices[k], vertices[k - 1]))
         IN [vertices EXCEPT ![k] = VAdd(vertices[k - 1], VScale(l, u))]
    ELSE vertices

\* wake.py 369-387: the loop over the filaments.
RECURSIVE SegmentedVtk(_, _, _, _, _)
SegmentedVtk(vertices, lines, i, m, l) ==
    IF m > Len(filaments) THEN [vertices |-> vertices, lines |-> lines]
    ELSE LET f == filaments[m] IN
         SegmentedVtk(EndTreated(vertices \o f.points, f, l),
                      lines \o FilamentLines(f, i),
                      i + Len(f.points), m + 1, l)

\* wake.py 88-97, 261-291 and 352-389: (vertices, line_vertex_indices, count).
get_vtk_data(l) ==
    CASE wake_class = "Wake" -> <<<<>>, <<>>, 0>>
      [] wake_class = "NonIterativeWake" ->
            LET r == FixedVtk(<<>>, <<>>, 0, 1, l)
            IN <<r.vertices, r.lines, Len(filaments)>>
      [] wake_class = "IterativeWake" ->
            LET r == SegmentedVtk(<<>>, <<>>, 0, 1, l)
            IN <<r.vertices, r.lines, Len(filaments) * FilamentN(filaments[1])>>

\* get_vtk_data(length=...), called by the exporter once the directions are set.
GetVtkData ==
    /\ pc \in {"directed", "computed", "relaxed"}
    /\ \E l \in VtkLengths : vtk' = get_vtk_data(l)
    /\ UNCHANGED <<pc, wake_class, wake_type, wake_kwargs, wake_kutta_edges, filaments,
                   N_segments, corrector_iterations, kernel, field_points, influence,
                   updates, last_update, last_direction>>
    /\ UNCHANGED meshVars

\* Every wake variant, over the Kutta edges of a trailing edge of two spans (or
\* none, for the dummy wake).
InitExport ==
    /\ pc = "wake_new"
    /\ NoMesh
    /\ wake_kutta_edges \in RelaxEdgeLists
    /\ \/ /\ wake_class = "Wake"
          /\ wake_type = "freestream"
          /\ wake_kwargs = [dir |-> <<>>, normal_dir |-> <<>>,
                            end_segment_infinite |-> FALSE]
          /\ N_segments = 1
       \/ /\ wake_class = "NonIterativeWake"
          /\ wake_type \in WakeTypes
          /\ wake_kwargs \in KwargsOf(wake_type)
          /\ N_segments = 1
       \/ /\ wake_class = "IterativeWake"
          /\ wake_type = "freestream"
          /\ wake_kwargs \in {[dir |-> <<>>, normal_dir |-> <<>>,
                               end_segment_infinite |-> b] : b \in BOOLEAN}
          /\ N_segments \in 1..MaxSegments
    /\ corrector_iterations = 0
    /\ kernel = <<Zero3, Zero3>>
    /\ filaments = <<>>
    /\ field_points = <<>>
    /\ influence = <<>>
    /\ updates = 0
    /\ last_update = <<>>
    /\ vtk = <<>>
    /\ last_direction = <<>>

NextExport == WakeConstruct \/ SetFilamentDirection \/ GetVtkData

SpecExport == InitExport /\ [][NextExport]_vars

\* ---------------------------------------------------------- the export's claims
\* Number of vertices get_vtk_data emits per filament.
VerticesPerFilament == IF wake_class = "IterativeWake" THEN N_segments + 1 ELSE 2

\* Every line entry is [2, a, b] with a and b valid 0-based indices of the
\* returned vertex list that are consecutive points of one filament.
LinesJoinConsecutivePoints ==
    \A k \in 1..Len(vtk[2]) :
        LET line == vtk[2][k]
            a == line[2]
            b == line[3]
        IN /\ Len(line) = 3
           /\ line[1] = 2
           /\ a \in 0..(Len(vtk[1]) - 1)
           /\ b \in 0..(Len(vtk[1]) - 1)
           /\ b = a + 1
           /\ a \div VerticesPerFilament = b \div VerticesPerFilament

\* C14 as stated: the lines join consecutive points of one filament and the third
\* value returned by get_vtk_data is the number of filaments, for every wake
\* variant.
C14_ThirdValueIsFilamentCount ==
    vtk # <<>> =>
        /\ LinesJoinConsecutivePoints
        /\ vtk[3] = Len(filaments)

\* C14 amended: the lines join consecutive points of one filament, the vertex list
\* holds every point of every filament, and the third value is the number of line
\* entries: the number of filaments for Wake (0) and NonIterativeWake, and the
\* number of filaments times the segments per filament for IterativeWake.
C14_ThirdValueIsLineCount ==
    vtk # <<>> =>
        /\ LinesJoinConsecutivePoints
        /\ Len(vtk[1]) = Len(filaments) * VerticesPerFilament
        /\ vtk[3] = Len(vtk[2])
        /\ vtk[3] = IF wake_class = "IterativeWake"
                    THEN Len(filaments) * N_segments
                    ELSE Len(filaments)

\* An iterative wake of three filaments with two segments each has been exported.
C14_Witness ==
    /\ vtk # <<>>
    /\ wake_class = "IterativeWake"
    /\ Len(filaments) = 3
    /\ N_segments = 2
    /\ Len(vtk[2]) = 6

\* ------------------------------------------------- the vertex arrangement's claim
\* The filaments whose origin is the vertex v.
FilamentsAt(v) == {m \in 1..Len(filaments) : filaments[m].p0 = v}

\* C15: a constructed wake has exactly one filament per distinct Kutta-edge
\* vertex, and for every Kutta edge the filament at its first vertex carries the
\* edge's panel pair as an inbound pair and the filament at its second vertex
\* carries it as an outbound pair, also when several edges share a first (or a
\* second) vertex.
C15_NoPanelPairDropped ==
    (pc = "wake_constructed" /\ wake_class # "Wake") =>
        /\ \A k \in 1..Len(wake_kutta_edges) : \A c \in 1..2 :
              Cardinality(FilamentsAt(wake_kutta_edges[k].vertices[c])) = 1
        /\ \A m \in 1..Len(filaments) :
              \E k \in 1..Len(wake_kutta_edges) :
                  filaments[m].p0 \in Range(wake_kutta_edges[k].vertices)
        /\ \A k \in 1..Len(wake_kutta_edges) :
              LET e == wake_kutta_edges[k] IN
              /\ \A m \in FilamentsAt(e.vertices[1]) :
                    filaments[m].inbound_panels = e.panel_indices
              /\ \A m \in FilamentsAt(e.vertices[2]) :
                    filaments[m].outbound_panels = e.panel_indices

\* ------------------------------------------------- the predictor-corrector's claims
Relaxed == pc = "relaxed"

\* The stations the last update() went through.
Log == last_update.log

\* Every velocity evaluation of the last update(): the points it was made at
\* and the induced velocity the wake returned for them.
Evaluations ==
    UNION {{[at |-> Log[i].curr_loc, v_ind |-> Log[i].v_ind]}
             \cup {[at |-> Log[i].passes[j].at, v_ind |-> Log[i].passes[j].v_ind] :
                      j \in 1..Len(Log[i].passes)} :
           i \in 1..Len(Log)}

RECURSIVE VSum(_)
VSum(vs) == IF vs = <<>> THEN Zero3 ELSE VAdd(Head(vs), VSum(Tail(vs)))

\* The strength an element between the panels [i, j] has: mu[j] - mu[i].
Strength(mu, pair) == mu[pair[2]] - mu[pair[1]]

\* The mu-weighted velocity of filament f at x: the inbound pair counts with the
\* opposite sign of the outbound pair.
WeightedFilament(f, x, mu) ==
    LET V == SegmentedInfluenceAt(f, x)
        so == IF Len(f.outbound_panels) > 0 THEN Strength(mu, f.outbound_panels) ELSE 0
        si == IF Len(f.inbound_panels) > 0 THEN Strength(mu, f.inbound_panels) ELSE 0
    IN VScale(so - si, V)

WeightedEdge(e, x, mu) == VScale(Strength(mu, e.panel_indices), EdgeInfluenceAt(e, x))

\* The sum over the panels of mu times the matrix row.
MuWeighted(row, mu) ==
    VSum([k \in 1..(NumPanels + 2) |-> VScale(mu[k - 1], row[k - 1])])

\* C16: the velocity update() uses at the starting point of filament i equals
\* the mu-weighted entries of the influence matrix at that point for the same
\* elements, i.e. all the Kutta edges and all the filaments but filament i.
C16_VelocityIsWeightedMatrix ==
    Relaxed =>
        \A i \in 1..Len(last_update.before) :
            VAdd(last_update.v_ind[i],
                 WeightedFilament(last_update.before[i], Log[1].curr_loc[i],
                                  last_update.mu))
              = MuWeighted(last_update.matrix[i], last_update.mu)

\* C17: in every velocity evaluation of update(), the induced velocity at the
\* point of filament i is the sum of the mu-weighted velocity of every other
\* filament and of every Kutta edge, each counted once, and holds nothing of
\* filament i itself.
C17_OwnFilamentExcluded ==
    Relaxed =>
        \A ev \in Evaluations : \A i \in 1..Len(last_update.before) :
            ev.v_ind[i] =
                VAdd(VSum([j \in 1..Len(last_update.before) |->
                              IF j = i THEN Zero3
                              ELSE WeightedFilament(last_update.before[j], ev.at[i],
                                                    last_update.mu)]),
                     VSum([k \in 1..Len(wake_kutta_edges) |->
                              WeightedEdge(wake_kutta_edges[k], ev.at[i],
                                           last_update.mu)]))

\* An update with corrector passes and non-zero strengths, on a wake of several
\* filaments, where a filament's own velocity at its own point is not zero and
\* the velocity induced there by the others is not zero either.
C17_Witness ==
    /\ Relaxed
    /\ corrector_iterations = MaxCorrectors
    /\ Len(last_update.before) >= 2
    /\ \E ev \in Evaluations : \E i \in 1..Len(last_update.before) :
          /\ WeightedFilament(last_update.before[i], ev.at[i], last_update.mu) # Zero3
          /\ ev.v_ind[i] # Zero3

\* The total velocity at the points x, with the induced velocity ind.
TotalVelocity(x, ind) ==
    [i \in 1..Len(x) |->
        VAdd(VSub(VAdd(velocity_from_body(last_update.body, x[i]), last_update.v_inf),
                  Cross(last_update.omega, x[i])),
             ind[i])]

\* C18: the velocity of every corrector pass at the predicted point is, like the
\* step-start velocity, body-induced + freestream - omega x x + induced by the
\* other filaments and the Kutta edges.
C18_CorrectorHasAllFourTerms ==
    Relaxed =>
        \A i \in 1..Len(Log) :
            /\ Log[i].v0 = Array(TotalVelocity(Log[i].curr_loc, Log[i].v_ind))
            /\ \A j \in 1..Len(Log[i].passes) :
                  Log[i].passes[j].v1 =
                      Array(TotalVelocity(Log[i].passes[j].at, Log[i].passes[j].v_ind))

\* C19: every corrector pass of a station advances from the station's
\* step-start point by the segment length along the unit direction of the
\* average of the step-start velocity and the velocity at the point predicted
\* before the pass; the step-start point and velocity are those of the station
\* in every pass.
C19_CorrectorAdvancesFromStepStart ==
    Relaxed =>
        \A i \in 1..Len(Log) : \A j \in 1..Len(Log[i].passes) :
            LET s == Log[i]
                pass == s.passes[j]
            IN /\ pass.from = s.curr_loc
               /\ pass.v0 = s.v0
               /\ pass.at = IF j = 1 THEN s.predicted ELSE s.passes[j - 1].next_loc
               /\ \A m \in 1..Len(s.curr_loc) :
                     /\ pass.v_avg[m] = Half(VAdd(s.v0[m], pass.v1[m]))
                     /\ pass.next_loc[m] =
                           VAdd(s.curr_loc[m],
                                VScale(SegmentLength, Unit(pass.v_avg[m])))

\* Two corrector passes at a station, the second of which moved the point the
\* first had predicted, away from the step-start point.
C19_Witness ==
    /\ Relaxed
    /\ \E i \in 1..Len(Log) :
          /\ Len(Log[i].passes) = 2
          /\ Log[i].passes[2].next_loc # Log[i].passes[1].next_loc
          /\ Log[i].passes[1].next_loc # Log[i].predicted
          /\ Log[i].passes[2].at # Log[i].curr_loc

\* The calls of the body-velocity function in the last update(): one per
\* station and one per corrector pass.
RECURSIVE BodyCalls(_)
BodyCalls(log) ==
    IF log = <<>> THEN 0 ELSE 1 + Len(Head(log).passes) + BodyCalls(Tail(log))

\* C20: one update() visits exactly N_segments stations in downstream order,
\* runs exactly corrector_iterations passes at each, and calls the body-velocity
\* function N_segments * (1 + corrector_iterations) times.
C20_IterationBounded ==
    Relaxed =>
        /\ Len(Log) = N_segments
        /\ \A i \in 1..Len(Log) : Len(Log[i].passes) = corrector_iterations
        /\ \A i \in 2..Len(Log) : Log[i].curr_loc = Log[i - 1].next_loc
        /\ \A m \in 1..Len(filaments) : \A i \in 1..Len(Log) :
              filaments[m].points[i + 1] = Log[i].next_loc[m]
        /\ BodyCalls(Log) = N_segments * (1 + corrector_iterations)

\* An update of two stations with two passes each in which a pass left the
\* points where they were: a convergence test would have stopped there.
C20_Witness ==
    /\ Relaxed
    /\ N_segments = MaxSegments
    /\ corrector_iterations = MaxCorrectors
    /\ BodyCalls(Log) = MaxSegments * (1 + MaxCorrectors)
    /\ \E i \in 1..Len(Log) :
          Log[i].passes[2].next_loc = Log[i].passes[1].next_loc

\* ------------------------------------------------------ the update's visibility
\* The velocity the filaments fils, other than filament i, and the Kutta edges
\* induce at x.
InducedBy(fils, x, i, mu) ==
    VAdd(VSum([j \in 1..Len(fils) |->
                  IF j = i THEN Zero3 ELSE WeightedFilament(fils[j], x, mu)]),
         VSum([k \in 1..Len(wake_kutta_edges) |->
                  WeightedEdge(wake_kutta_edges[k], x, mu)]))

\* C21: every velocity evaluation of one update() sees the filament geometry as
\* it was before the call, and the points of every filament after the call are
\* point 0 followed by the stations the call computed: they are stored only
\* once all the stations are known.
C21_GeometryFrozenDuringUpdate ==
    Relaxed =>
        /\ \A ev \in Evaluations : \A i \in 1..Len(last_update.before) :
              ev.v_ind[i] = InducedBy(last_update.before, ev.at[i], i, last_update.mu)
        /\ Len(filaments) = Len(last_update.before)
        /\ \A m \in 1..Len(filaments) :
              filaments[m].points =
                  <<last_update.before[m].points[1]>>
                      \o [i \in 1..Len(Log) |-> Log[i].next_loc[m]]

\* A second update of two stations whose later evaluations would have had
\* another value had they read the points the call was about to store.
C21_Witness ==
    /\ Relaxed
    /\ updates = 2
    /\ N_segments = MaxSegments
    /\ \E i \in 1..Len(last_update.before) :
          /\ filaments[i].points # last_update.before[i].points
          /\ \E m \in 1..Len(filaments) :
                /\ m # i
                /\ InducedBy(filaments, Log[2].curr_loc[m], m, last_update.mu)
                      # Log[2].v_ind[m]

\* ------------------------------------------------------------ the update's frame
\* What update() leaves alone in filament g, given the filament f before it.
SameButTrailingPoints(f, g) ==
    /\ g.p0 = f.p0
    /\ g.dir = f.dir
    /\ g.inbound_panels = f.inbound_panels
    /\ g.outbound_panels = f.outbound_panels
    /\ g.end_inf = f.end_inf
    /\ Len(g.points) = Len(f.points)
    /\ g.points[1] = f.points[1]

\* C22: a step that is an update() call changes only the trailing points
\* 1..N_segments of each filament: the number of filaments, the number of points
\* of each, each origin, panel pair and infinite-end flag and the Kutta-edge list
\* are as before, and the caller's mu, v_inf and omega are as they were passed.
C22_UpdateChangesOnlyTrailingPoints ==
    [][updates' = updates + 1 =>
          /\ Len(filaments') = Len(filaments)
          /\ \A m \in 1..Len(filaments) :
                /\ SameButTrailingPoints(filaments[m], filaments'[m])
                /\ Len(filaments'[m].points) = N_segments + 1
          /\ wake_kutta_edges' = wake_kutta_edges
          /\ N_segments' = N_segments
          /\ last_update'.after.mu = last_update'.mu
          /\ last_update'.after.v_inf = last_update'.v_inf
          /\ last_update'.after.omega = last_update'.omega]_vars

\* An update with non-zero strengths and rotation has moved every trailing
\* point of a filament of two segments.
C22_Witness ==
    /\ Relaxed
    /\ N_segments = MaxSegments
    /\ last_update.omega # Zero3
    /\ last_update.mu[1] # 0
    /\ \E m \in 1..Len(filaments) :
          /\ SameButTrailingPoints(last_update.before[m], filaments[m])
          /\ \A k \in 2..(N_segments + 1) :
                filaments[m].points[k] # last_update.before[m].points[k]

\* --------------------------------------------------------------- the empty wake
\* C23: a NonIterativeWake or IterativeWake given an empty Kutta-edge list (and
\* the keywords its type needs) constructs with zero filaments and acts as a
\* zero-contribution wake: every matrix it returns is zero and its vtk data
\* are empty.
C23_EmptyWakeConstructs ==
    (/\ pc # "wake_new"
     /\ wake_class \in {"NonIterativeWake", "IterativeWake"}
     /\ Len(wake_kutta_edges) = 0
     /\ ~KeywordMissing) =>
        /\ pc \in {"wake_constructed", "directed", "computed", "relaxed"}
        /\ filaments = <<>>
        /\ pc = "computed" => influence = ZeroMatrix(field_points)
        /\ vtk # <<>> => (vtk[1] = <<>> /\ vtk[2] = <<>>)

\* ------------------------------------------------------ the direction's claim
\* The direction rule of a NonIterativeWake type for a filament at p0.
DirectionRule(type, p0, v_inf, omega) ==
    IF type = "custom" THEN Unit(wake_kwargs.dir[1])
    ELSE LET v == IF type \in {"freestream", "freestream_constrained"}
                  THEN v_inf
                  ELSE VSub(v_inf, Cross(omega, p0))
         IN IF Constrained(type) THEN Unit(Project(v)) ELSE Unit(v)

\* C24: after any set_filament_direction call of a NonIterativeWake the
\* direction of every filament is the one the rule of the wake's type gives for
\* the arguments of the latest call, whatever calls came before, and the call
\* leaves v_inf, omega, the Kutta vertices and the panel lists as they were.
C24_DirectionIsFunctionOfLatestArguments ==
    (wake_class = "NonIterativeWake" /\ pc \in {"directed", "computed"}) =>
        LET arr == arrange_kutta_vertices(wake_kutta_edges) IN
        /\ Len(filaments) = Len(arr)
        /\ \A m \in 1..Len(filaments) :
              /\ filaments[m].dir = DirectionRule(wake_type, filaments[m].p0,
                                                  last_direction.v_inf,
                                                  last_direction.omega)
              /\ filaments[m].p0 = arr[m].vertex
              /\ filaments[m].inbound_panels = arr[m].ip
              /\ filaments[m].outbound_panels = arr[m].op
        /\ last_direction.after.v_inf = last_direction.v_inf
        /\ last_direction.after.omega = last_direction.omega

\* A rotation-dependent wake of several filaments has been directed again with
\* other arguments than in the call before.
C24_Witness ==
    /\ wake_class = "NonIterativeWake"
    /\ pc = "directed"
    /\ wake_type = "freestream_and_rotation"
    /\ Len(filaments) >= 2
    /\ last_direction.previous = "other"
    /\ last_direction.omega # Zero3
    /\ \E a, b \in 1..Len(filaments) : filaments[a].dir # filaments[b].dir

\* ------------------------------------------------------- the neighbour lists
\* A Kutta edge lies between the panels i and j.
KuttaEdgeBetween(i, j) ==
    \E k \in 1..Len(kutta_edges) : Range(kutta_edges[k].panel_indices) = {i, j}

\* C25: with a Kutta angle, panel j is in panel i's across list if and only if
\* the Kutta-edge list holds an edge whose panel pair is {i, j}, and a
\* neighbour with no Kutta edge between it and panel i is in the not-across
\* list.
C25_AcrossIffKuttaEdge ==
    (Constructed /\ kutta_angle # <<>>) =>
        \A i, j \in PanelIds :
            /\ InSeq(j, across[i]) <=> KuttaEdgeBetween(i, j)
            /\ (Adjacent(i, j) /\ ~KuttaEdgeBetween(i, j)) => InSeq(j, not_across[i])

\* C26: without a Kutta angle every panel's not-across list is its full
\* adjacent_panels list and its across list is empty.
C26_NoAngleAllNeighboursNotAcross ==
    (Constructed /\ kutta_angle = <<>>) =>
        \A i \in PanelIds :
            /\ not_across[i] = adjacent_panels[i]
            /\ across[i] = <<>>

=============================================================================
